---- MODULE Spec2Model ----
(***************************************************************************)
(* State-machine model of the Google Drive plugin of plugin-bioagent:      *)
(* DrivePlugin (src/src/plugins/drive.ts), the file_metadata table         *)
(* (src/unnamed/part_001) and the dkgPlugin entry point that creates the   *)
(* DrivePlugin (src/unnamed/part_003).                                     *)
(*                                                                         *)
(* Every `await` of the code is an interleaving point: an async function   *)
(* is a sequence of atomic steps, one per stretch of code between awaits.  *)
(* Paths and file names are sequences of characters, file contents are     *)
(* sequences of bytes.  The md5 digest is kept abstract: an injective      *)
(* function of the bytes (no collisions within the bounded contents).      *)
(* Timestamps (new Date(), defaultNow()) are readings of a logical clock   *)
(* that ticks at every insert statement.                                   *)
(***************************************************************************)
EXTENDS Integers, Sequences, FiniteSets, TLC

\* ------------------------------------------------------------------ bounds
\* Largest number of watcher events delivered in one run.
MaxEvents == 3
\* Largest maxRetries a direct caller of syncWithRetry passes.
MaxRetriesArg == 4
\* Smallest maxRetries a direct caller passes is -MinRetriesNeg.
MinRetriesNeg == 1

\* ------------------------------------------------------- program constants
\* syncWithRetry(runtime, maxRetries: number = 3)
DefaultMaxRetries == 3
\* setTimeout(resolve, 1000 * Math.pow(2, attempts))
BaseDelay == 1000

\* ------------------------------------------------------------------ inputs
\* The watched folder holds two documents and one text file.
PathA == <<"d", "/", "a", ".", "p", "d", "f">>
PathB == <<"d", "/", "b", ".", "p", "d", "f">>
PathN == <<"d", "\\", "n", "o", "t", "e", "s", ".", "t", "x", "t">>
Paths == {PathA, PathB, PathN}

\* File contents: two distinct byte strings; Absent marks a missing file
\* (bytes are 0..255, so <<-1>> is no content).
Bytes1 == <<37, 80>>
Bytes2 == <<37, 80, 68>>
Contents == {Bytes1, Bytes2}
Absent == <<-1>>
\* The bytes written to a path during a run (the text file is never read).
ContentsOf(path) == IF path = PathN THEN {Bytes1} ELSE Contents

EventKinds == {"add", "change", "unlink"}

VARIABLES
  \* --- syncWithRetry / init
  caller,      \* "init": DrivePlugin.init called by dkgPlugin.init; "direct": syncWithRetry called on its own
  localFolder, \* config.localFolder is set
  maxRetries,  \* the maxRetries argument
  syncPc,      \* "start" | "call" | "backoff" | "resolved" | "rejected", then
               \* "returned" | "raised" once the caller has resumed
  attempts,    \* local variable attempts
  calls,       \* number of calls of syncGoogleDriveChanges made
  succeeded,   \* some call of syncGoogleDriveChanges returned normally
  thrown,      \* index of the call whose error syncWithRetry threw (0: none)
  waits,       \* the setTimeout delays, in order
  dkg,         \* dkgPlugin: "none" | "initializing" | "ready" | "failed" | "shutdown"
  \* --- local monitoring
  watcher,     \* this.watcher: "none" | "open" | "closed"
  stopPc,      \* stop(): "idle" | "closing" | "resolved"
  fs,          \* the watched folder: path -> bytes or Absent
  nEvents,     \* number of events the watcher has delivered
  handlers,    \* the handler invocations in flight, in order of delivery
  finished,    \* the handler invocations that have settled
  store,       \* biograph.file_metadata: a set of rows
  tasks,       \* the tasks created through runtime.createTask, in order
  clock        \* logical time

syncVars == <<caller, localFolder, maxRetries, syncPc, attempts, calls, succeeded, thrown, waits>>
vars == <<caller, localFolder, maxRetries, syncPc, attempts, calls, succeeded, thrown, waits,
          dkg, watcher, stopPc, fs, nEvents, handlers, finished, store, tasks, clock>>

\* ----------------------------------------------------------- pure helpers
\* path.endsWith(suffix)
EndsWith(s, suffix) ==
  /\ Len(s) >= Len(suffix)
  /\ SubSeq(s, Len(s) - Len(suffix) + 1, Len(s)) = suffix

DotPdf == <<".", "p", "d", "f">>

IsSeparator(c) == c \in {"/", "\\"}

\* path.split(/[\\/]/).pop(): the characters after the last separator
RECURSIVE LastSegment(_)
LastSegment(s) ==
  IF s = <<>> THEN <<>>
  ELSE IF IsSeparator(s[Len(s)]) THEN <<>>
  ELSE Append(LastSegment(SubSeq(s, 1, Len(s) - 1)), s[Len(s)])

Unknown == <<"u", "n", "k", "n", "o", "w", "n">>

\* path.split(/[\\/]/).pop() || 'unknown'
FileNameOf(path) == IF LastSegment(path) = <<>> THEN Unknown ELSE LastSegment(path)

\* createHash('md5').update(fileBuffer).digest('hex'), abstract and injective
Md5(buf) == <<"md5", buf>>

\* `local_${hash.slice(0, 8)}`
FileIdOf(hash) == <<"local_", hash>>

\* Math.pow(2, n) for n >= 0
RECURSIVE Pow2(_)
Pow2(n) == IF n <= 0 THEN 1 ELSE 2 * Pow2(n - 1)

\* A mutant of the backoff delay: the exponent counts from zero.
BackoffDelayFromZero(n) == BaseDelay * Pow2(n - 1)

\* 1000 * Math.pow(2, attempts)
BackoffDelay(n) == BaseDelay * Pow2(n)

\* ------------------------------------------------------------ file_metadata
\* A row of biograph.file_metadata (the columns processLocalFile writes).
Row(id, hash, fileName, fileSize, createdAt, modifiedAt) ==
  [id |-> id, hash |-> hash, fileName |-> fileName, fileSize |-> fileSize,
   createdAt |-> createdAt, modifiedAt |-> modifiedAt]

\* select().from(fileMetadataTable).where(eq(fileMetadataTable.hash, hash))
SelectByHash(table, hash) == {r \in table : r.hash = hash}

\* A plain insert that ignores the conflict on the key (no ON CONFLICT clause,
\* no key constraint): the row is added beside the one already there.
InsertIgnoringKey(table, v) ==
  table \cup {Row(v.id, v.hash, v.fileName, v.fileSize, v.now, v.now)}

\* insert(...).values({id, hash, fileName, fileSize, modifiedAt})
\*   .onConflictDoUpdate({target: hash, set: {fileName, fileSize, modifiedAt, id}})
\* hash is the primary key; createdAt is defaultNow() on insert and is not in `set`.
Upsert(table, v) ==
  IF SelectByHash(table, v.hash) = {}
  THEN table \cup {Row(v.id, v.hash, v.fileName, v.fileSize, v.now, v.now)}
  ELSE {IF r.hash = v.hash
        THEN [r EXCEPT !.fileName = v.fileName, !.fileSize = v.fileSize,
                       !.modifiedAt = v.now, !.id = v.id]
        ELSE r : r \in table}

\* .returning(): the rows the statement inserted or updated
Returning(table, v) == SelectByHash(Upsert(table, v), v.hash)

\* --------------------------------------------------------- syncWithRetry
\* A mutant of the test on line 78: the last attempt is missed by one.
RetriesExhaustedLate(n) == n = maxRetries + 1

\* if (attempts === maxRetries)
RetriesExhausted(n) == n = maxRetries

\* while (attempts < maxRetries) { ... await syncGoogleDriveChanges(runtime)
LoopTest ==
  IF attempts < maxRetries
  THEN syncPc' = "call" /\ calls' = calls + 1
  ELSE syncPc' = "resolved" /\ calls' = calls

\* syncWithRetry is entered: let attempts = 0; first test of the loop.
SyncEnter ==
  /\ syncPc = "start"
  /\ LoopTest
  /\ UNCHANGED <<caller, localFolder, maxRetries, attempts, succeeded, thrown, waits>>
  /\ UNCHANGED <<dkg, watcher, stopPc, fs, nEvents, handlers, finished, store, tasks, clock>>

\* syncGoogleDriveChanges resolves: logger.info; return.
SyncSucceeds ==
  /\ syncPc = "call"
  /\ syncPc' = "resolved"
  /\ succeeded' = TRUE
  /\ UNCHANGED <<caller, localFolder, maxRetries, attempts, calls, thrown, waits>>
  /\ UNCHANGED <<dkg, watcher, stopPc, fs, nEvents, handlers, finished, store, tasks, clock>>

\* syncGoogleDriveChanges rejects: attempts++; throw on the last attempt,
\* otherwise start the backoff timer.
SyncFails ==
  /\ syncPc = "call"
  /\ attempts' = attempts + 1
  /\ IF RetriesExhausted(attempts + 1)
     THEN syncPc' = "rejected" /\ thrown' = calls /\ waits' = waits
     ELSE /\ syncPc' = "backoff"
          /\ thrown' = thrown
          /\ waits' = Append(waits, BackoffDelay(attempts + 1))
  /\ UNCHANGED <<caller, localFolder, maxRetries, calls, succeeded>>
  /\ UNCHANGED <<dkg, watcher, stopPc, fs, nEvents, handlers, finished, store, tasks, clock>>

\* The backoff timer fires: next test of the loop.
BackoffDone ==
  /\ syncPc = "backoff"
  /\ LoopTest
  /\ UNCHANGED <<caller, localFolder, maxRetries, attempts, succeeded, thrown, waits>>
  /\ UNCHANGED <<dkg, watcher, stopPc, fs, nEvents, handlers, finished, store, tasks, clock>>

\* ------------------------------------------------- init and the entry point
\* chokidar.watch(folderPath, ...): this.watcher is set and the handlers attached
StartLocalMonitoring == watcher' = "open"

\* The frame of syncWithRetry is gone once its caller has resumed: its local
\* and the observations of this invocation are cleared.
SyncReturned(pc) ==
  /\ syncPc' = pc
  /\ attempts' = 0 /\ calls' = 0 /\ thrown' = 0 /\ waits' = <<>>
  /\ UNCHANGED <<caller, localFolder, maxRetries, succeeded>>

\* DrivePlugin.init after `await this.syncWithRetry(runtime)` resolved:
\* start monitoring if config.localFolder is set; dkgPlugin.init then resolves.
InitResumes ==
  /\ caller = "init" /\ dkg = "initializing" /\ syncPc = "resolved"
  /\ IF localFolder THEN StartLocalMonitoring ELSE watcher' = watcher
  /\ dkg' = "ready"
  /\ SyncReturned("returned")
  /\ UNCHANGED <<stopPc, fs, nEvents, handlers, finished, store, tasks, clock>>

\* A mutant of init: the rejection of syncWithRetry is swallowed and the
\* monitoring starts all the same.
InitIgnoresSyncFailure ==
  /\ caller = "init" /\ dkg = "initializing" /\ syncPc = "rejected"
  /\ IF localFolder THEN StartLocalMonitoring ELSE watcher' = watcher
  /\ dkg' = "ready"
  /\ SyncReturned("returned")
  /\ UNCHANGED <<stopPc, fs, nEvents, handlers, finished, store, tasks, clock>>

\* `await this.syncWithRetry(runtime)` rejected: init and dkgPlugin.init reject.
InitRejects ==
  /\ caller = "init" /\ dkg = "initializing" /\ syncPc = "rejected"
  /\ dkg' = "failed"
  /\ SyncReturned("raised")
  /\ UNCHANGED <<watcher, stopPc, fs, nEvents, handlers, finished, store, tasks, clock>>

\* The host shuts the dkg plugin down.  The plugin object has no stop hook and
\* init kept the DrivePlugin in a local constant: nothing of the plugin runs.
HostShutdown ==
  /\ dkg \in {"ready", "failed"}
  /\ dkg' = "shutdown"
  /\ UNCHANGED syncVars
  /\ UNCHANGED <<watcher, stopPc, fs, nEvents, handlers, finished, store, tasks, clock>>

\* stop() is called: if (this.watcher) await this.watcher.close().
\* close() releases the handle and detaches the listeners at once.
StopCalled ==
  /\ stopPc = "idle"
  /\ IF watcher # "none"
     THEN watcher' = "closed" /\ stopPc' = "closing"
     ELSE watcher' = watcher /\ stopPc' = "resolved"
  /\ UNCHANGED syncVars
  /\ UNCHANGED <<dkg, fs, nEvents, handlers, finished, store, tasks, clock>>

\* The promise of close() resolves: logger.info; stop() resolves.
StopResolves ==
  /\ stopPc = "closing"
  /\ stopPc' = "resolved"
  /\ UNCHANGED syncVars
  /\ UNCHANGED <<dkg, watcher, fs, nEvents, handlers, finished, store, tasks, clock>>

\* ------------------------------------------------------ the event handlers
NoBytes == <<>>
NoHash == <<>>
NoName == <<>>

\* A mutant of the extension filter: every file is accepted.
AcceptedAny(path) == path = path

\* path.endsWith('.pdf')
Accepted(path) == EndsWith(path, DotPdf)

\* One invocation of processLocalFile in flight.
\* pc: the await it is suspended at: "read" | "stat" | "select" | "insert" | "task".
Invocation(path) ==
  [path |-> path, pc |-> "read", fileName |-> NoName, buf |-> NoBytes,
   size |-> 0, hash |-> NoHash]

\* What is kept of a handler invocation once its promise has settled.
\* kind: "add" | "change" | "unlink" for one that returned before calling
\*       processLocalFile, "process" for one that called it;
\* result: "skipped" | "exists" | "enqueued" | "none" | "caught";
\* err: what the catch block got: "none" | "read" | "storage";
\* settled: "resolved" | "rejected".
Outcome(kind, path, result, err, settled) ==
  [kind |-> kind, pdf |-> EndsWith(path, DotPdf), result |-> result, err |-> err,
   settled |-> settled]

\* The sequence without its i-th element.
RemoveAt(seq, i) == SubSeq(seq, 1, i - 1) \o SubSeq(seq, i + 1, Len(seq))

\* processLocalFile returns: the promise of invocation i resolves.
Return(i, result) ==
  /\ handlers' = RemoveAt(handlers, i)
  /\ finished' = finished \cup
       {Outcome("process", handlers[i].path, result, "none", "resolved")}

\* .on('add' | 'change', async (path) => { if (!path.endsWith('.pdf')) return;
\*    await this.processLocalFile(path, runtime) })
OnAddOrChange(kind, path) ==
  IF ~Accepted(path)
  THEN /\ finished' = finished \cup {Outcome(kind, path, "skipped", "none", "resolved")}
       /\ handlers' = handlers
  ELSE /\ handlers' = Append(handlers, Invocation(path))
       /\ finished' = finished

\* A mutant of the catch block: the error is not caught, the rejection is
\* unhandled and the process ends, taking every invocation in flight with it.
CrashOnError(i, err) ==
  /\ handlers' = <<>>
  /\ finished' = finished \cup
       {Outcome("process", handlers[j].path, "aborted", err, "rejected")
          : j \in DOMAIN handlers}

\* catch (error) { logger.error(...) }: the error is logged and swallowed,
\* processLocalFile resolves.
CatchError(i, err) ==
  /\ handlers' = RemoveAt(handlers, i)
  /\ finished' = finished \cup
       {Outcome("process", handlers[i].path, "caught", err, "resolved")}

\* A file appears in the watched folder (or is found there when the watch
\* starts, ignoreInitial: false): the watcher delivers 'add'.
OnAdd(path, bytes) ==
  /\ watcher = "open" /\ nEvents < MaxEvents
  /\ fs[path] = Absent
  /\ fs' = [fs EXCEPT ![path] = bytes]
  /\ nEvents' = nEvents + 1
  /\ OnAddOrChange("add", path)
  /\ UNCHANGED syncVars
  /\ UNCHANGED <<dkg, watcher, stopPc, store, tasks, clock>>

\* A file of the watched folder is written (with new bytes or the same
\* bytes again): the watcher delivers 'change'.
OnChange(path, bytes) ==
  /\ watcher = "open" /\ nEvents < MaxEvents
  /\ fs[path] # Absent
  /\ fs' = [fs EXCEPT ![path] = bytes]
  /\ nEvents' = nEvents + 1
  /\ OnAddOrChange("change", path)
  /\ UNCHANGED syncVars
  /\ UNCHANGED <<dkg, watcher, stopPc, store, tasks, clock>>

\* A file of the watched folder is deleted: the watcher delivers 'unlink'.
\* The handler logs the file name; deletion is not implemented.
OnUnlink(path) ==
  /\ watcher = "open" /\ nEvents < MaxEvents
  /\ fs[path] # Absent
  /\ fs' = [fs EXCEPT ![path] = Absent]
  /\ nEvents' = nEvents + 1
  /\ finished' = finished \cup {Outcome("unlink", path, "skipped", "none", "resolved")}
  /\ handlers' = handlers
  /\ UNCHANGED syncVars
  /\ UNCHANGED <<dkg, watcher, stopPc, store, tasks, clock>>

\* const fileName = ...; const fileBuffer = await fs.readFile(filePath)
ReadFile(i) ==
  /\ handlers[i].pc = "read"
  /\ IF fs[handlers[i].path] = Absent
     THEN CatchError(i, "read")
     ELSE /\ handlers' = [handlers EXCEPT ![i] =
                            [@ EXCEPT !.pc = "stat",
                                      !.fileName = FileNameOf(handlers[i].path),
                                      !.buf = fs[handlers[i].path]]]
          /\ finished' = finished
  /\ UNCHANGED syncVars
  /\ UNCHANGED <<dkg, watcher, stopPc, fs, nEvents, store, tasks, clock>>

\* const fileSize = (await fs.stat(filePath)).size; const hash = md5(fileBuffer)
Stat(i) ==
  /\ handlers[i].pc = "stat"
  /\ IF fs[handlers[i].path] = Absent
     THEN CatchError(i, "read")
     ELSE /\ handlers' = [handlers EXCEPT ![i] =
                            [@ EXCEPT !.pc = "select",
                                      !.size = Len(fs[handlers[i].path]),
                                      !.hash = Md5(handlers[i].buf)]]
          /\ finished' = finished
  /\ UNCHANGED syncVars
  /\ UNCHANGED <<dkg, watcher, stopPc, fs, nEvents, store, tasks, clock>>

\* const fileExists = await db.select()...; if (fileExists.length > 0) return
SelectExisting(i) ==
  /\ handlers[i].pc = "select"
  /\ IF SelectByHash(store, handlers[i].hash) # {}
     THEN Return(i, "exists")
     ELSE /\ handlers' = [handlers EXCEPT ![i] = [@ EXCEPT !.pc = "insert"]]
          /\ finished' = finished
  /\ UNCHANGED syncVars
  /\ UNCHANGED <<dkg, watcher, stopPc, fs, nEvents, store, tasks, clock>>

\* The values of the insert statement; fileId = `local_${hash.slice(0, 8)}`.
InsertValues(h) ==
  [id |-> FileIdOf(h.hash), hash |-> h.hash, fileName |-> h.fileName,
   fileSize |-> h.size, now |-> clock]

\* const result = await db.insert(...).onConflictDoUpdate(...).returning();
\* if (result.length > 0) -> createTask
InsertOrUpdate(i) ==
  /\ handlers[i].pc = "insert"
  /\ store' = Upsert(store, InsertValues(handlers[i]))
  /\ clock' = clock + 1
  /\ IF Returning(store, InsertValues(handlers[i])) # {}
     THEN /\ handlers' = [handlers EXCEPT ![i] = [@ EXCEPT !.pc = "task"]]
          /\ finished' = finished
     ELSE Return(i, "none")
  /\ UNCHANGED syncVars
  /\ UNCHANGED <<dkg, watcher, stopPc, fs, nEvents, tasks>>

\* The select or the insert fails (the store is unavailable): caught on line 181.
StorageFails(i) ==
  /\ handlers[i].pc \in {"select", "insert"}
  /\ CatchError(i, "storage")
  /\ UNCHANGED syncVars
  /\ UNCHANGED <<dkg, watcher, stopPc, fs, nEvents, store, tasks, clock>>

\* await runtime.createTask({name: 'PROCESS_PDF', metadata: {fileId, fileName, ...}})
CreateTask(i) ==
  /\ handlers[i].pc = "task"
  /\ tasks' = Append(tasks, [name |-> "PROCESS_PDF",
                             fileId |-> FileIdOf(handlers[i].hash),
                             fileName |-> handlers[i].fileName])
  /\ Return(i, "enqueued")
  /\ UNCHANGED syncVars
  /\ UNCHANGED <<dkg, watcher, stopPc, fs, nEvents, store, clock>>

\* ------------------------------------------------------------ specification
Init ==
  /\ caller \in {"init", "direct"}
  /\ localFolder \in BOOLEAN
  /\ maxRetries \in (0 - MinRetriesNeg)..MaxRetriesArg
  /\ caller = "init" => maxRetries = DefaultMaxRetries
  /\ caller = "direct" => ~localFolder
  /\ syncPc = "start"
  /\ attempts = 0
  /\ calls = 0
  /\ succeeded = FALSE
  /\ thrown = 0
  /\ waits = <<>>
  /\ dkg = IF caller = "init" THEN "initializing" ELSE "none"
  /\ watcher = "none"
  /\ stopPc = "idle"
  /\ fs = [p \in Paths |-> Absent]
  /\ nEvents = 0
  /\ handlers = <<>>
  /\ finished = {}
  /\ store = {}
  /\ tasks = <<>>
  /\ clock = 1

Next ==
  \/ SyncEnter
  \/ SyncSucceeds
  \/ SyncFails
  \/ BackoffDone
  \/ InitResumes
  \/ InitRejects
  \/ \E path \in Paths : \E bytes \in ContentsOf(path) : OnAdd(path, bytes)
  \/ \E path \in Paths : \E bytes \in ContentsOf(path) : OnChange(path, bytes)
  \/ \E path \in Paths : OnUnlink(path)
  \/ \E i \in DOMAIN handlers : ReadFile(i)
  \/ \E i \in DOMAIN handlers : Stat(i)
  \/ \E i \in DOMAIN handlers : SelectExisting(i)
  \/ \E i \in DOMAIN handlers : InsertOrUpdate(i)
  \/ \E i \in DOMAIN handlers : StorageFails(i)
  \/ \E i \in DOMAIN handlers : CreateTask(i)

\* The plugin in operation.  Nothing in the repository calls stop(), and the
\* dkg plugin has no shutdown hook.
Spec == Init /\ [][Next]_vars

\* The plugin with a host that shuts the dkg plugin down and with a holder of
\* the DrivePlugin that calls stop().
NextLifecycle ==
  \/ Next
  \/ HostShutdown
  \/ StopCalled
  \/ StopResolves

SpecLifecycle == Init /\ [][NextLifecycle]_vars

\* ------------------------------------------------------------------ claims
Hashes == {Md5(b) : b \in Contents}

TasksFor(hash) == {k \in DOMAIN tasks : tasks[k].fileId = FileIdOf(hash)}

\* C1: all the 'add'/'change' events that carry the same bytes, in any
\* interleaving of their handlers, enqueue at most one PROCESS_PDF task for
\* that content in total.
C1_AtMostOneTaskPerContent ==
  \A hash \in Hashes : Cardinality(TasksFor(hash)) <= 1

\* C2: in every reachable state of file_metadata, no two rows have the same
\* content hash, also after two processLocalFile calls raced on one hash
\* between their existence check and their insert.
C2_OneRecordPerHash ==
  \A r1 \in store : \A r2 \in store : r1.hash = r2.hash => r1 = r2

\* C2 witness: two invocations both passed the existence check for one hash
\* and both ran the insert statement: the second one updated the row of the
\* first (in a row that was only inserted, modifiedAt = createdAt).
C2_RacedUpsertWitness ==
  \E r \in store : r.modifiedAt > r.createdAt

\* C3: when processLocalFile sights bytes that are already recorded under
\* another file name, the existing row gets the file name of the later
\* sighting and a later modifiedAt, and keeps its hash and its createdAt.
C3_LaterSightingUpdatesRecord ==
  [][\A i \in DOMAIN handlers :
       (/\ handlers[i].pc = "select"
        /\ SelectExisting(i)
        /\ \E r \in store : r.hash = handlers[i].hash /\ r.fileName # handlers[i].fileName)
       => \A r \in SelectByHash(store, handlers[i].hash) :
            \E r2 \in store' :
              /\ r2.hash = r.hash
              /\ r2.createdAt = r.createdAt
              /\ r2.fileName = handlers[i].fileName
              /\ r2.modifiedAt > r.modifiedAt]_vars

\* C4: for maxRetries = N >= 1, syncGoogleDriveChanges is called once per
\* attempt and never after a success; syncWithRetry resolves exactly when a
\* call succeeds, the k-th call (k <= N) after k - 1 failures; it rejects
\* after exactly N calls, all failed, with the error of the N-th call.
C4_RetryBound ==
  maxRetries >= 1 =>
    /\ calls <= maxRetries
    /\ syncPc = "call" => calls = attempts + 1 /\ ~succeeded
    /\ syncPc = "backoff" => calls = attempts /\ ~succeeded /\ attempts < maxRetries
    /\ syncPc = "resolved" => succeeded /\ calls = attempts + 1 /\ thrown = 0
    /\ syncPc = "rejected" =>
         ~succeeded /\ calls = maxRetries /\ attempts = maxRetries /\ thrown = maxRetries
    /\ succeeded => syncPc \in {"resolved", "returned"}

\* C4 witness: with the default of 3, fail, fail, succeed resolves on the
\* third call.
C4_RecoveryWitness ==
  /\ maxRetries = DefaultMaxRetries /\ caller = "init"
  /\ syncPc = "resolved" /\ calls = 3 /\ attempts = 2 /\ succeeded

\* C5: the wait after the i-th failed attempt (i = 1, 2, ...) is
\* 1000 * 2^i ms, each wait is twice the one before, there is one wait after
\* every failed attempt but the last, and with 3 attempts that all fail the
\* two waits are at least 1000 ms and at least 2000 ms.
C5_BackoffSchedule ==
  /\ \A i \in DOMAIN waits : waits[i] = 1000 * 2^i
  /\ \A i \in DOMAIN waits : i > 1 => waits[i] = 2 * waits[i - 1]
  /\ syncPc = "backoff" => Len(waits) = attempts
  /\ syncPc = "call" => Len(waits) = attempts
  /\ syncPc = "rejected" /\ maxRetries >= 1 => Len(waits) = maxRetries - 1
  /\ syncPc = "rejected" /\ maxRetries = 3 =>
       Len(waits) = 2 /\ waits[1] >= 1000 /\ waits[2] >= 2000

\* C5 witness: three failed attempts with the default of 3 and their two waits.
C5_TwoWaitsWitness ==
  /\ maxRetries = DefaultMaxRetries /\ syncPc = "rejected"
  /\ waits = <<2000, 4000>>

\* C6: when the existence query or the upsert of processLocalFile fails, the
\* handler's promise rejects: the failure reaches its caller as an error.
C6_StorageFailurePropagates ==
  \A o \in finished : o.err = "storage" => o.settled = "rejected"

\* C7: a step in which readFile or stat fails for one invocation changes
\* neither the store nor the task queue nor the watcher, settles that one
\* invocation without an error leaving it, and leaves every other
\* invocation in flight as it was, so that it goes on to be hashed,
\* deduplicated, recorded and enqueued.
C7_ReadFailureIsolated ==
  [][\A i \in DOMAIN handlers :
       (/\ handlers[i].pc \in {"read", "stat"}
        /\ fs[handlers[i].path] = Absent
        /\ ReadFile(i) \/ Stat(i))
       => /\ store' = store /\ tasks' = tasks /\ watcher' = watcher
          /\ handlers' = RemoveAt(handlers, i)
          /\ \A o \in finished' \ finished : o.err = "read" /\ o.settled = "resolved"]_vars

\* C7 witness: the read of one event's file failed, and another event of the
\* same run was recorded and enqueued.
C7_SiblingProcessedWitness ==
  /\ \E o \in finished : o.err = "read"
  /\ \E o \in finished : o.result = "enqueued"
  /\ Len(tasks) = 1 /\ store # {}

\* C8: once the dkg plugin has been shut down, the directory watch opened by
\* startLocalMonitoring is released.
C8_WatchReleasedOnShutdown ==
  dkg = "shutdown" => watcher # "open"

\* C9: an event of any kind for a file whose name does not end in .pdf, and
\* an 'unlink' event for any file, start no processLocalFile, settle without
\* error, and leave the rows of file_metadata and the task queue as they
\* were; no row is ever deleted, and no row or task bears a name that is
\* not accepted.
C9_NotIngestedNoEffect ==
  /\ [](\A i \in DOMAIN handlers : EndsWith(handlers[i].path, DotPdf))
  /\ [](\A o \in finished :
          /\ ~o.pdf => o.kind # "process"
          /\ o.kind # "process" => o.result = "skipped" /\ o.err = "none" /\ o.settled = "resolved")
  /\ [](\A r \in store : EndsWith(r.fileName, DotPdf))
  /\ [](\A k \in DOMAIN tasks : EndsWith(tasks[k].fileName, DotPdf))
  /\ [][(nEvents' = nEvents + 1 /\ handlers' = handlers)
        => (store' = store /\ tasks' = tasks)]_vars
  /\ [][\A r \in store : \E r2 \in store' :
          r2.hash = r.hash /\ r2.createdAt = r.createdAt]_vars

\* C9 witness: a.pdf was ingested and then deleted, its 'unlink' was
\* delivered, an event for notes.txt was delivered, and the row of a.pdf and
\* its task are still there.
C9_UnlinkAndSkipWitness ==
  /\ fs[PathA] = Absent
  /\ \E r \in store : r.fileName = FileNameOf(PathA)
  /\ \E o \in finished : o.kind = "unlink" /\ o.pdf
  /\ \E o \in finished : o.kind \in {"add", "change"} /\ ~o.pdf
  /\ Len(tasks) = 1

\* C10: for every maxRetries, syncWithRetry resolves only if a call of
\* syncGoogleDriveChanges it made succeeded.
C10_ResolvesOnlyAfterSuccess ==
  syncPc = "resolved" => (succeeded /\ calls >= 1)

\* C11: once stop() has closed the watcher and resolved, file_metadata and
\* the task queue do not change any more, also when an invocation of
\* processLocalFile was in flight when stop() was called.
C11_QuiescentAfterStop ==
  [][(stopPc = "resolved" /\ watcher = "closed")
       => (store' = store /\ tasks' = tasks)]_vars

\* C12: the watcher exists only when init was called with localFolder set
\* and a call of syncGoogleDriveChanges succeeded within the 3 attempts;
\* events, invocations, rows and tasks exist only when the watcher does; when
\* all 3 attempts failed, syncWithRetry throws the error of the third, init
\* and dkgPlugin.init reject, and there is never a watcher, an event, a row
\* or a task.
C12_MonitoringOnlyAfterSync ==
  /\ watcher # "none" =>
       /\ caller = "init" /\ localFolder
       /\ succeeded /\ syncPc = "returned" /\ dkg \in {"ready", "shutdown"}
  /\ (nEvents > 0 \/ handlers # <<>> \/ finished # {} \/ store # {} \/ tasks # <<>>)
       => watcher # "none"
  /\ (caller = "init" /\ syncPc = "rejected") =>
       /\ thrown = DefaultMaxRetries /\ calls = DefaultMaxRetries /\ ~succeeded
       /\ watcher = "none"
  /\ syncPc = "raised" =>
       /\ dkg \in {"failed", "shutdown"} /\ ~succeeded
       /\ watcher = "none" /\ nEvents = 0 /\ handlers = <<>>
       /\ store = {} /\ tasks = <<>>
  /\ dkg = "failed" => syncPc = "raised"
  /\ (caller = "init" /\ syncPc = "returned") =>
       (watcher = "none" <=> ~localFolder)

\* C12 witness: localFolder is set, the sync failed on all 3 attempts and
\* init has rejected.
C12_InitRejectedWitness ==
  /\ caller = "init" /\ localFolder
  /\ dkg = "failed" /\ syncPc = "raised" /\ watcher = "none"

====
